---- MODULE Spec2Model ----
(***************************************************************************)
(* SalaryDetector (src/salary_detection.py): the recurring-payment         *)
(* detector detect_monthly_salary and the pipeline process_customer_salary.*)
(*                                                                         *)
(* A DataFrame is a sequence of rows; a row is a record of the columns the *)
(* code reads plus `index`, its row label (labels are unique: the frame is *)
(* built with a RangeIndex).  Timestamps are whole hours since an epoch,   *)
(* amounts are integers, and the tolerance band is computed exactly        *)
(* (twice the median, percent) instead of in floating point.               *)
(***************************************************************************)
EXTENDS Integers, Sequences, FiniteSets, TLC

VARIABLES
    \* ---- detect_monthly_salary, one call ----
    df,                     \* argument df
    customer_id,            \* argument customer_id
    min_occurrences,        \* argument min_occurrences
    customer_df,            \* filtered, sorted frame
    groups,                 \* merchant keys the for loop has still to visit
    results,                \* list of per-merchant frames
    grp,                    \* the current merchant's frame
    days_since_last,        \* column grp["days_since_last"]
    amount_in_range,        \* column grp["amount_in_range"]
    i,                      \* index of the streak walk
    streak,                 \* current streak (row labels)
    valid_streak_indices,   \* accepted row labels
    result_df,              \* the returned frame
    dpc,                    \* position in detect_monthly_salary
    \* ---- process_customer_salary, one run ----
    mv_transactions,        \* the rows the query of get_credit_transactions selects
    credit_df,              \* the fetched batch
    customer_ids,           \* customers the loop has still to visit
    all_salary_transactions,\* the aggregate
    saved_df,               \* the frame handed to save_salary_transactions
    customer_salary,        \* the sink table
    fetch_calls,            \* calls of get_credit_transactions so far
    save_calls,             \* calls of save_salary_transactions so far
    sink_failed,            \* the sink write raised
    outcome,                \* what the caller of process_customer_salary sees
    pc                      \* position in process_customer_salary

detect_vars == <<df, customer_id, min_occurrences, customer_df, groups, results,
                 grp, days_since_last, amount_in_range, i, streak,
                 valid_streak_indices, result_df, dpc>>
pipeline_vars == <<mv_transactions, credit_df, customer_ids,
                   all_salary_transactions, saved_df, customer_salary,
                   fetch_calls, save_calls, sink_failed, outcome, pc>>
vars == <<detect_vars, pipeline_vars>>

----------------------------------------------------------------------------
(* Program constants: the defaults of detect_monthly_salary.               *)

MIN_AMOUNT == 70000
DAY_INTERVAL_LO == 25
DAY_INTERVAL_HI == 35
AMOUNT_TOLERANCE_PCT == 10
MIN_OCCURRENCES == 3

\* Timestamps count hours; Timedelta.days counts whole days of 24 hours.
HoursPerDay == 24

\* The missing days_since_last of a group's first row; every comparison
\* with it is false.
NaN == -1

\* merchant_name of a row without counterparty (NULL in the table).
NoMerchant == "None"

\* groupby sorts its keys and, with dropna=False, puts the missing key last.
MerchantOrder == <<"ACME CORP", NoMerchant>>

----------------------------------------------------------------------------
(* Bounds of the model.                                                    *)

MaxRows == 4
MaxBatch == 6

----------------------------------------------------------------------------
(* detect_monthly_salary as operators.                                     *)

Range(s) == {s[j] : j \in 1..Len(s)}

\* Eligible with the test on customer_id forgotten
Eligible_AnyCustomer(row, c, min_amount) ==
    /\ row.ob_transaction_type = "CREDIT"
    /\ row.amount >= min_amount

\* lines 70-74: the boolean mask of the filter
Eligible(row, c, min_amount) ==
    /\ row.customer_id = c
    /\ row.ob_transaction_type = "CREDIT"
    /\ row.amount >= min_amount

FilterCustomer(frame, c, min_amount) ==
    SelectSeq(frame, LAMBDA row : Eligible(row, c, min_amount))

\* sort_values("ob_transaction_timestamp"): rows with equal timestamps keep
\* their order (the frames here are short enough for the insertion sort).
InsertSorted(sorted, row) ==
    LET n == Cardinality({j \in 1..Len(sorted) :
                 sorted[j].ob_transaction_timestamp <= row.ob_transaction_timestamp})
    IN SubSeq(sorted, 1, n) \o <<row>> \o SubSeq(sorted, n + 1, Len(sorted))

RECURSIVE SortValues(_)
SortValues(frame) ==
    IF frame = <<>> THEN <<>>
    ELSE InsertSorted(SortValues(SubSeq(frame, 1, Len(frame) - 1)), frame[Len(frame)])

\* groupby("merchant_name", dropna=False): the keys, in iteration order
GroupKeys(frame) ==
    SelectSeq(MerchantOrder, LAMBDA m : \E j \in 1..Len(frame) : frame[j].merchant_name = m)

\* line 97: the group of one key, sorted again
GroupOf(frame, m) ==
    SortValues(SelectSeq(frame, LAMBDA row : row.merchant_name = m))

\* TimedeltaDays taking the difference of the two dates instead
TimedeltaDays_Dates(t1, t2) == (t2 \div HoursPerDay) - (t1 \div HoursPerDay)

\* Timedelta.days of t2 - t1: whole days elapsed, rounded down
TimedeltaDays(t1, t2) == (t2 - t1) \div HoursPerDay

\* line 102: grp["ob_transaction_timestamp"].diff().dt.days
DaysSinceLast(g) ==
    [j \in 1..Len(g) |->
        IF j = 1 THEN NaN
        ELSE TimedeltaDays(g[j - 1].ob_transaction_timestamp, g[j].ob_transaction_timestamp)]

\* lines 105-107 and 146-149
InInterval(d, lo, hi) == d # NaN /\ d >= lo /\ d <= hi

ValidIntervalCount(dsl, lo, hi) ==
    Cardinality({j \in 1..Len(dsl) : InInterval(dsl[j], lo, hi)})

\* TooFewIntervals comparing with min_occurrences, not min_occurrences - 1
TooFewIntervals_OffByOne(dsl, k, lo, hi) == ValidIntervalCount(dsl, lo, hi) < k

\* line 111: the early exit on the number of in-window intervals
TooFewIntervals(dsl, k, lo, hi) == ValidIntervalCount(dsl, lo, hi) < k - 1

\* line 115: twice the median of grp["amount"] (the mean of the two middle
\* values when the group has an even number of rows)
Median2(g) ==
    LET n == Len(g)
        Rank(j) == Cardinality({l \in 1..n : g[l].amount < g[j].amount
                                             \/ (g[l].amount = g[j].amount /\ l < j)}) + 1
        At(r) == g[CHOOSE j \in 1..n : Rank(j) = r].amount
    IN IF n % 2 = 1 THEN 2 * At((n + 1) \div 2)
       ELSE At(n \div 2) + At(n \div 2 + 1)

\* lines 118-121: between(lower_bound, upper_bound), both ends included
Between(amount, median2, tol_pct) ==
    /\ 200 * amount >= median2 * (100 - tol_pct)
    /\ 200 * amount <= median2 * (100 + tol_pct)

AmountInRange(g, tol_pct) ==
    [j \in 1..Len(g) |-> Between(g[j].amount, Median2(g), tol_pct)]

\* Qualifies accepting a streak one transaction short
Qualifies_OneShort(s, k) == Len(s) >= k - 1

\* Qualifies accepting only streaks of exactly min_occurrences transactions
Qualifies_Exactly(s, k) == Len(s) = k

\* lines 158, 163, 168: the test that accepts a streak
Qualifies(s, k) == Len(s) >= k

\* WalkStep without the test of the previous transaction's amount
WalkStep_CurrentAmountOnly(g, dsl, air, st, j, k, lo, hi) ==
    IF InInterval(dsl[j], lo, hi) /\ air[j]
    THEN [streak |-> Append(st.streak, g[j].index), valid |-> st.valid]
    ELSE [streak |-> <<g[j].index>>,
          valid  |-> IF Len(st.streak) >= k THEN st.valid \o st.streak ELSE st.valid]

\* lines 141-165: one iteration of the walk.  st = [streak, valid]
WalkStep(g, dsl, air, st, j, k, lo, hi) ==
    IF InInterval(dsl[j], lo, hi) /\ air[j] /\ air[j - 1]
    THEN [streak |-> Append(st.streak, g[j].index), valid |-> st.valid]
    ELSE [streak |-> <<g[j].index>>,
          valid  |-> IF Qualifies(st.streak, k) THEN st.valid \o st.streak ELSE st.valid]

\* lines 168-169: the final streak
WalkEnd(st, k) ==
    IF Qualifies(st.streak, k) THEN st.valid \o st.streak ELSE st.valid

RECURSIVE Walk(_, _, _, _, _, _, _, _)
Walk(g, dsl, air, st, j, k, lo, hi) ==
    IF j > Len(g) THEN WalkEnd(st, k)
    ELSE Walk(g, dsl, air, WalkStep(g, dsl, air, st, j, k, lo, hi), j + 1, k, lo, hi)

\* line 171: list(set(valid_streak_indices)); small integers come out ascending
RECURSIVE Ascending(_)
Ascending(S) ==
    IF S = {} THEN <<>>
    ELSE LET m == CHOOSE x \in S : \A y \in S : x <= y
         IN <<m>> \o Ascending(S \ {m})

Unique(labels) == Ascending(Range(labels))

\* line 176: grp.loc[valid_streak_indices]
Loc(g, labels) ==
    [j \in 1..Len(labels) |-> g[CHOOSE l \in 1..Len(g) : g[l].index = labels[j]]]

\* lines 95-177: the body of the for loop, for one merchant's group; the
\* frame it appends to results, <<>> when it appends none
GroupResult(g, k, lo, hi, tol_pct) ==
    IF Len(g) < k THEN <<>>
    ELSE LET dsl == DaysSinceLast(g)
         IN IF TooFewIntervals(dsl, k, lo, hi) THEN <<>>
            ELSE Loc(g, Unique(Walk(g, dsl, AmountInRange(g, tol_pct),
                                    [streak |-> <<g[1].index>>, valid |-> <<>>],
                                    2, k, lo, hi)))

RECURSIVE Concat(_)
Concat(frames) ==
    IF frames = <<>> THEN <<>> ELSE frames[1] \o Concat(Tail(frames))

\* line 186: drop_duplicates(subset=["ob_transaction_id"]) keeps the first
DropDuplicates(frame) ==
    LET keep == {j \in 1..Len(frame) :
                    \A l \in 1..(j - 1) : frame[l].ob_transaction_id # frame[j].ob_transaction_id}
        F[j \in 0..Len(frame)] ==
            IF j = 0 THEN <<>>
            ELSE IF j \in keep THEN Append(F[j - 1], frame[j]) ELSE F[j - 1]
    IN F[Len(frame)]

\* lines 190-203: the columns returned (the row labels are dropped)
Columns(row) ==
    [customer_id |-> row.customer_id,
     ob_transaction_id |-> row.ob_transaction_id,
     merchant_name |-> row.merchant_name,
     amount |-> row.amount,
     ob_transaction_timestamp |-> row.ob_transaction_timestamp]

\* ConcatSorted without the sort
ConcatSorted_Unsorted(frames) == Concat(frames)

\* line 183: pd.concat(results).sort_values("ob_transaction_timestamp")
ConcatSorted(frames) == SortValues(Concat(frames))

\* lines 179-203
Combine(frames) ==
    LET d == DropDuplicates(ConcatSorted(frames))
    IN [j \in 1..Len(d) |-> Columns(d[j])]

\* lines 47-203
DetectMonthlySalary(frame, c, min_amount, lo, hi, tol_pct, k) ==
    LET cdf == SortValues(FilterCustomer(frame, c, min_amount))
        keys == GroupKeys(cdf)
        per == [n \in 1..Len(keys) |-> GroupResult(GroupOf(cdf, keys[n]), k, lo, hi, tol_pct)]
    IN Combine(SelectSeq(per, LAMBDA f : f # <<>>))

----------------------------------------------------------------------------
(* Inputs of one call of detect_monthly_salary.                            *)

At(day, hour) == day * HoursPerDay + hour

\* Timestamps: day 0 12:00, day 25 00:00, day 25 12:00, day 30 12:00,
\* day 60 12:00, day 100 12:00.
DetectTimes == <<At(0, 12), At(25, 0), At(25, 12), At(30, 12), At(60, 12), At(100, 12)>>
LowTimes == <<At(0, 12), At(30, 12), At(60, 12)>>
HighTimes == <<At(30, 12), At(60, 12), At(100, 12)>>
NoMerchantTimes == <<At(25, 12), At(60, 12), At(100, 12)>>

Template(c, m, a, ty, t) ==
    [customer_id |-> c, merchant_name |-> m, amount |-> a,
     ob_transaction_type |-> ty, ob_transaction_timestamp |-> t]

\* The rows a frame is drawn from: one merchant at every time, lower and
\* higher amounts of this merchant (on and beyond the edges of the band), a
\* second, missing, merchant, and three rows the filter must drop.
BaseTemplates ==
    [n \in 1..Len(DetectTimes) |-> Template(1, "ACME CORP", 100000, "CREDIT", DetectTimes[n])]
    \o [n \in 1..Len(LowTimes) |-> Template(1, "ACME CORP", 90000, "CREDIT", LowTimes[n])]
    \o [n \in 1..Len(HighTimes) |-> Template(1, "ACME CORP", 110000, "CREDIT", HighTimes[n])]
    \o [n \in 1..Len(NoMerchantTimes) |->
        Template(1, NoMerchant, 100000, "CREDIT", NoMerchantTimes[n])]
    \o << Template(1, "ACME CORP", 60000, "CREDIT", At(30, 12)),
          Template(1, "ACME CORP", 100000, "DEBIT", At(60, 12)),
          Template(2, "ACME CORP", 100000, "CREDIT", At(30, 12)) >>

WithId(t, id) ==
    [ob_transaction_id |-> id, customer_id |-> t.customer_id,
     merchant_name |-> t.merchant_name, amount |-> t.amount,
     ob_transaction_type |-> t.ob_transaction_type,
     ob_transaction_timestamp |-> t.ob_transaction_timestamp]

\* The first row of the missing merchant (day 25 12:00)
FirstNoMerchant == Len(DetectTimes) + Len(LowTimes) + Len(HighTimes) + 1

\* Every template has a transaction id of its own, but for the last one: a
\* later row of the first merchant that repeats the id of FirstNoMerchant.
DetectTemplates ==
    [n \in 1..Len(BaseTemplates) |-> WithId(BaseTemplates[n], n)]
    \o << WithId(Template(1, "ACME CORP", 100000, "CREDIT", At(60, 12)), FirstNoMerchant) >>

\* The numbers of S, largest first
RECURSIVE Descending(_)
Descending(S) ==
    IF S = {} THEN <<>>
    ELSE LET m == CHOOSE x \in S : \A y \in S : x >= y
         IN <<m>> \o Descending(S \ {m})

\* The ways to pick at most max of n templates, each a decreasing sequence
Picks(n, max) ==
    {Descending(S) : S \in {T \in SUBSET (1..n) : Cardinality(T) <= max}}

\* A frame with a RangeIndex whose rows are the chosen templates
FrameOf(templates, picks) ==
    [j \in 1..Len(picks) |->
        LET t == templates[picks[j]]
        IN [index |-> j, ob_transaction_id |-> t.ob_transaction_id,
            customer_id |-> t.customer_id, merchant_name |-> t.merchant_name,
            amount |-> t.amount, ob_transaction_type |-> t.ob_transaction_type,
            ob_transaction_timestamp |-> t.ob_transaction_timestamp]]

DetectFrames ==
    {FrameOf(DetectTemplates, p) : p \in Picks(Len(DetectTemplates), MaxRows)}

MinOccurrencesValues == 1..MIN_OCCURRENCES

----------------------------------------------------------------------------
(* One call detect_monthly_salary(df, customer_id, min_occurrences=k),     *)
(* step by step; the other parameters keep their defaults.                 *)

PipelineIdle ==
    /\ mv_transactions = <<>>
    /\ credit_df = <<>>
    /\ customer_ids = <<>>
    /\ all_salary_transactions = <<>>
    /\ saved_df = <<>>
    /\ customer_salary = {}
    /\ fetch_calls = 0
    /\ save_calls = 0
    /\ sink_failed = FALSE
    /\ outcome = "none"
    /\ pc = "idle"

DetectIdle ==
    /\ customer_df = <<>>
    /\ groups = <<>>
    /\ results = <<>>
    /\ grp = <<>>
    /\ days_since_last = <<>>
    /\ amount_in_range = <<>>
    /\ i = 0
    /\ streak = <<>>
    /\ valid_streak_indices = <<>>
    /\ result_df = <<>>

\* The detector's variables while process_customer_salary runs (it calls
\* detect_monthly_salary as a whole)
DetectUnused ==
    /\ df = <<>>
    /\ customer_id = 0
    /\ min_occurrences = MIN_OCCURRENCES
    /\ dpc = "idle"
    /\ DetectIdle

InitDetect ==
    /\ df \in DetectFrames
    /\ customer_id = 1
    /\ min_occurrences \in MinOccurrencesValues
    /\ dpc = "filter"
    /\ DetectIdle
    /\ PipelineIdle

walk_vars == <<grp, days_since_last, amount_in_range, i, streak, valid_streak_indices>>

\* lines 70-93; an empty customer_df returns at line 77
Filter ==
    /\ dpc = "filter"
    /\ customer_df' = SortValues(FilterCustomer(df, customer_id, MIN_AMOUNT))
    /\ IF customer_df' = <<>>
       THEN /\ dpc' = "done"
            /\ groups' = <<>>
       ELSE /\ dpc' = "group"
            /\ groups' = GroupKeys(customer_df')
    /\ results' = <<>>
    /\ result_df' = <<>>
    /\ UNCHANGED <<df, customer_id, min_occurrences, walk_vars, pipeline_vars>>

\* lines 95-99: a group smaller than min_occurrences is skipped
GroupTooSmall ==
    /\ dpc = "group"
    /\ groups # <<>>
    /\ Len(GroupOf(customer_df, Head(groups))) < min_occurrences
    /\ grp' = GroupOf(customer_df, Head(groups))
    /\ days_since_last' = <<>>
    /\ amount_in_range' = <<>>
    /\ groups' = Tail(groups)
    /\ UNCHANGED <<df, customer_id, min_occurrences, customer_df, results, result_df, dpc,
                   i, streak, valid_streak_indices, pipeline_vars>>

\* lines 102-112: a group with too few in-window intervals is skipped
GroupFewIntervals ==
    /\ dpc = "group"
    /\ groups # <<>>
    /\ LET g == GroupOf(customer_df, Head(groups))
       IN /\ Len(g) >= min_occurrences
          /\ TooFewIntervals(DaysSinceLast(g), min_occurrences,
                             DAY_INTERVAL_LO, DAY_INTERVAL_HI)
          /\ grp' = g
          /\ days_since_last' = DaysSinceLast(g)
    /\ amount_in_range' = <<>>
    /\ groups' = Tail(groups)
    /\ UNCHANGED <<df, customer_id, min_occurrences, customer_df, results, result_df, dpc,
                   i, streak, valid_streak_indices, pipeline_vars>>

\* lines 95-139: the group passes both tests; the walk starts at its first row
GroupStart ==
    /\ dpc = "group"
    /\ groups # <<>>
    /\ LET g == GroupOf(customer_df, Head(groups))
       IN /\ Len(g) >= min_occurrences
          /\ ~TooFewIntervals(DaysSinceLast(g), min_occurrences,
                              DAY_INTERVAL_LO, DAY_INTERVAL_HI)
          /\ grp' = g
          /\ days_since_last' = DaysSinceLast(g)
          /\ amount_in_range' = AmountInRange(g, AMOUNT_TOLERANCE_PCT)
          /\ streak' = <<g[1].index>>
    /\ valid_streak_indices' = <<>>
    /\ i' = 2
    /\ dpc' = "walk"
    /\ UNCHANGED <<df, customer_id, min_occurrences, customer_df, groups, results,
                   result_df, pipeline_vars>>

\* lines 140-165: one iteration of the walk
WalkNext ==
    /\ dpc = "walk"
    /\ i <= Len(grp)
    /\ LET st == WalkStep(grp, days_since_last, amount_in_range,
                          [streak |-> streak, valid |-> valid_streak_indices],
                          i, min_occurrences, DAY_INTERVAL_LO, DAY_INTERVAL_HI)
       IN /\ streak' = st.streak
          /\ valid_streak_indices' = st.valid
    /\ i' = i + 1
    /\ UNCHANGED <<df, customer_id, min_occurrences, customer_df, groups, results,
                   result_df, dpc, grp, days_since_last, amount_in_range, pipeline_vars>>

\* lines 167-177: the final streak, the unique labels, the group's frame
GroupEnd ==
    /\ dpc = "walk"
    /\ i > Len(grp)
    /\ valid_streak_indices' =
          Unique(WalkEnd([streak |-> streak, valid |-> valid_streak_indices], min_occurrences))
    /\ results' = IF valid_streak_indices' = <<>> THEN results
                  ELSE Append(results, Loc(grp, valid_streak_indices'))
    /\ groups' = Tail(groups)
    /\ dpc' = "group"
    /\ UNCHANGED <<df, customer_id, min_occurrences, customer_df, result_df,
                   grp, days_since_last, amount_in_range, i, streak, pipeline_vars>>

\* lines 179-203: after the last group
Return ==
    /\ dpc = "group"
    /\ groups = <<>>
    /\ result_df' = Combine(results)
    /\ dpc' = "done"
    /\ UNCHANGED <<df, customer_id, min_occurrences, customer_df, groups, results,
                   walk_vars, pipeline_vars>>

NextDetect ==
    \/ Filter
    \/ GroupTooSmall
    \/ GroupFewIntervals
    \/ GroupStart
    \/ WalkNext
    \/ GroupEnd
    \/ Return

SpecDetect == InitDetect /\ [][NextDetect]_vars

\* The walk computed at once agrees with the walk taken step by step.
StepwiseAgrees ==
    dpc = "done" =>
        result_df = DetectMonthlySalary(df, customer_id, MIN_AMOUNT, DAY_INTERVAL_LO,
                                        DAY_INTERVAL_HI, AMOUNT_TOLERANCE_PCT, min_occurrences)

----------------------------------------------------------------------------
(* Properties of detect_monthly_salary.                                    *)

Ids(frame) == {frame[j].ob_transaction_id : j \in 1..Len(frame)}

\* The customer's eligible rows, by label (a label is a position of df).
EligibleLabels ==
    {l \in 1..Len(df) : Eligible(df[l], customer_id, MIN_AMOUNT)}

\* The counterparty partition of row a
PartitionOf(a) ==
    {b \in EligibleLabels : df[b].merchant_name = df[a].merchant_name}

\* Timestamp order (rows with equal timestamps in the order of the frame)
Before(a, b) ==
    \/ df[a].ob_transaction_timestamp < df[b].ob_transaction_timestamp
    \/ (df[a].ob_transaction_timestamp = df[b].ob_transaction_timestamp /\ a < b)

\* b is the transaction right after a in a's partition
Consecutive(a, b) ==
    /\ b \in PartitionOf(a)
    /\ Before(a, b)
    /\ ~ \E c \in PartitionOf(a) : Before(a, c) /\ Before(c, b)

\* a's amount is inside the median band of its partition
RefInBand(a) ==
    LET P == PartitionOf(a)
        \* 2 * the number of amounts of P below / not above x
        Below(x) == Cardinality({b \in P : df[b].amount < x})
        NotAbove(x) == Cardinality({b \in P : df[b].amount <= x})
        n == Cardinality(P)
        \* the r-th smallest amount of P
        Nth(r) == df[CHOOSE b \in P : Below(df[b].amount) < r /\ r <= NotAbove(df[b].amount)].amount
        m2 == IF n % 2 = 1 THEN 2 * Nth((n + 1) \div 2) ELSE Nth(n \div 2) + Nth(n \div 2 + 1)
    IN /\ 200 * df[a].amount >= m2 * (100 - AMOUNT_TOLERANCE_PCT)
       /\ 200 * df[a].amount <= m2 * (100 + AMOUNT_TOLERANCE_PCT)

RefGap(a, b) ==
    (df[b].ob_transaction_timestamp - df[a].ob_transaction_timestamp) \div HoursPerDay

\* the pair (a, b) of consecutive transactions continues a run
Linked(a, b) ==
    /\ Consecutive(a, b)
    /\ DAY_INTERVAL_LO <= RefGap(a, b)
    /\ RefGap(a, b) <= DAY_INTERVAL_HI
    /\ RefInBand(a)
    /\ RefInBand(b)

\* the members of the maximal runs of length >= k.  Rows a and b (a not
\* after b) of one partition are joined when every consecutive pair from a to
\* b is linked; the maximal run of a is the rows of its partition joined to it.
RunMembers(k) ==
    LET E == EligibleLabels
        consecutive == {p \in E \X E : Consecutive(p[1], p[2])}
        linked == {p \in consecutive : Linked(p[1], p[2])}
        Joined(a, b) ==
            \A p \in consecutive :
                (/\ df[p[1]].merchant_name = df[a].merchant_name
                 /\ ~Before(p[1], a)
                 /\ ~Before(b, p[2])) => p \in linked
        RunOf(a) ==
            {b \in PartitionOf(a) : IF Before(b, a) THEN Joined(b, a) ELSE Joined(a, b)}
    IN {a \in E : Cardinality(RunOf(a)) >= k}

\* The transaction ids of the frame are distinct (the frame is a set of
\* transactions)
IdsDistinct ==
    \A a, b \in 1..Len(df) : a # b => df[a].ob_transaction_id # df[b].ob_transaction_id

\* The members left when a transaction id is kept once, at its earliest member
Returned(k) ==
    LET M == RunMembers(k)
    IN {a \in M : ~ \E b \in M : df[b].ob_transaction_id = df[a].ob_transaction_id
                                  /\ Before(b, a)}

SortedGaps ==
    [j \in 1..(Len(customer_df) - 1) |->
        TimedeltaDays(customer_df[j].ob_transaction_timestamp,
                      customer_df[j + 1].ob_transaction_timestamp)]

\* C1: the call returns exactly the members of the maximal runs of
\* consecutive same-counterparty transactions (every adjacent pair with a day
\* gap in [lo, hi] and both amounts in the partition's median band) that have
\* at least min_occurrences members: none is missing (the early exits drop
\* no qualifying run), nothing else is returned, and each is returned once.
\* (Were a transaction id repeated, it is returned at its earliest member.)
C1_ExactlyTheQualifyingRuns ==
    dpc = "done" =>
        LET R == Returned(min_occurrences)
        IN /\ Range(result_df) = {Columns(df[a]) : a \in R}
           /\ Len(result_df) = Cardinality(R)
           /\ IdsDistinct => R = RunMembers(min_occurrences)

\* Four transactions of one merchant 30, 30 and 40 days apart, amounts equal,
\* min_occurrences = 3: the first three are returned, the fourth is not.
C1_Witness ==
    /\ dpc = "done"
    /\ min_occurrences = 3
    /\ Len(customer_df) = 4
    /\ SortedGaps = <<30, 30, 40>>
    /\ \A j \in 1..4 : customer_df[j].merchant_name = "ACME CORP"
                       /\ customer_df[j].amount = customer_df[1].amount
    /\ IdsDistinct
    /\ Ids(result_df) = {customer_df[j].ob_transaction_id : j \in 1..3}
    /\ Len(result_df) = 3

\* A step of the walk that accepts the current streak
AcceptStep ==
    /\ dpc = "walk"
    /\ Len(valid_streak_indices') > Len(valid_streak_indices)

RowOf(label) == grp[CHOOSE l \in 1..Len(grp) : grp[l].index = label]

PairOK(a, b) ==
    LET gap == (RowOf(b).ob_transaction_timestamp - RowOf(a).ob_transaction_timestamp)
                   \div HoursPerDay
    IN /\ DAY_INTERVAL_LO <= gap
       /\ gap <= DAY_INTERVAL_HI
       /\ RefInBand(a)
       /\ RefInBand(b)

C3_AcceptedStreaksLongEnough ==
    /\ [][AcceptStep =>
            /\ Len(streak) >= min_occurrences
            /\ Len(valid_streak_indices') - Len(valid_streak_indices) >= min_occurrences]_vars
    /\ [](\A j \in 1..Len(results) : Len(results[j]) >= min_occurrences)
    /\ [](dpc = "done" /\ RunMembers(min_occurrences) = {} => result_df = <<>>)

\* min_occurrences = 3 and a group of four: the walk has accepted a streak
\* of three and has dropped the streak of one that is left.
C3_Witness ==
    /\ dpc = "group"
    /\ min_occurrences = 3
    /\ Len(grp) = 4
    /\ Len(streak) = 1
    /\ Len(valid_streak_indices) = 3
    /\ Len(results) = 1
    /\ Len(results[1]) = 3

CalendarDay(t) == t \div HoursPerDay
HourOfDay(t) == t % HoursPerDay

HasGaps == Len(days_since_last) = Len(grp)

\* C4, as claimed: the day gap of a row is the difference of the calendar
\* days of the row and of its predecessor, whatever their hours.
C4_GapIsCalendarDayDifference ==
    HasGaps =>
        \A j \in 2..Len(grp) :
            days_since_last[j] = CalendarDay(grp[j].ob_transaction_timestamp)
                                 - CalendarDay(grp[j - 1].ob_transaction_timestamp)

\* C4, amended: the day gap is the number of whole 24-hour periods elapsed.
\* It is the calendar-day difference when the row's time of day is not
\* earlier than its predecessor's and one less otherwise; rows of the same
\* calendar day have gap 0.
C4_GapIsWholeDaysElapsed ==
    HasGaps =>
        \A j \in 2..Len(grp) :
            LET t1 == grp[j - 1].ob_transaction_timestamp
                t2 == grp[j].ob_transaction_timestamp
            IN /\ days_since_last[j] =
                     CalendarDay(t2) - CalendarDay(t1)
                     - (IF HourOfDay(t2) < HourOfDay(t1) THEN 1 ELSE 0)
               /\ CalendarDay(t1) = CalendarDay(t2) => days_since_last[j] = 0

\* A pair 25 calendar days apart with less than 25 * 24 hours elapsed: its
\* gap is 24, outside the window.
C4_Witness ==
    /\ HasGaps
    /\ \E j \in 2..Len(grp) :
          /\ CalendarDay(grp[j].ob_transaction_timestamp)
               - CalendarDay(grp[j - 1].ob_transaction_timestamp) = DAY_INTERVAL_LO
          /\ days_since_last[j] = DAY_INTERVAL_LO - 1
          /\ ~InInterval(days_since_last[j], DAY_INTERVAL_LO, DAY_INTERVAL_HI)

Detect(k) ==
    DetectMonthlySalary(df, customer_id, MIN_AMOUNT, DAY_INTERVAL_LO, DAY_INTERVAL_HI,
                        AMOUNT_TOLERANCE_PCT, k)

\* C6: with min_occurrences raised (everything else equal) the call returns
\* a subset of the transactions (ids) it returned before, and so at most as
\* many; the very rows when the frame's transaction ids are distinct.
C6_MonotoneInMinOccurrences ==
    dpc = "done" =>
        \A k2 \in min_occurrences..(MaxRows + 1) :
            LET r2 == Detect(k2)
            IN /\ Ids(r2) \subseteq Ids(result_df)
               /\ Len(r2) <= Len(result_df)
               /\ IdsDistinct => Range(r2) \subseteq Range(result_df)

\* min_occurrences = 1 returns four transactions where 3 returns three.
C6_Witness ==
    /\ dpc = "done"
    /\ min_occurrences = 1
    /\ Len(result_df) = 4
    /\ Len(Detect(3)) = 3

\* C10: the frame returned is in non-decreasing timestamp order.
C10_ResultInTimestampOrder ==
    dpc = "done" =>
        \A j \in 1..(Len(result_df) - 1) :
            result_df[j].ob_transaction_timestamp <= result_df[j + 1].ob_transaction_timestamp

\* Accepted streaks of two merchants that interleave in time.
C10_Witness ==
    /\ dpc = "done"
    /\ Len(results) = 2
    /\ Len(result_df) = 4
    /\ result_df[1].merchant_name = "ACME CORP"
    /\ result_df[2].merchant_name = NoMerchant
    /\ result_df[3].merchant_name = "ACME CORP"
    /\ result_df[4].merchant_name = NoMerchant
    /\ result_df[1].ob_transaction_timestamp < result_df[2].ob_transaction_timestamp
    /\ result_df[2].ob_transaction_timestamp < result_df[3].ob_transaction_timestamp

----------------------------------------------------------------------------
(* process_customer_salary: one run.                                       *)

PipelineTimes == <<At(0, 12), At(30, 12), At(60, 12)>>

Transaction(id, c, ty, a, t) ==
    [ob_transaction_id |-> id, customer_id |-> c, merchant_name |-> "ACME CORP",
     amount |-> a, ob_transaction_type |-> ty, ob_transaction_timestamp |-> t]

\* Customer 1's transaction id at each of the three times
Mine(id) == [n \in 1..Len(PipelineTimes) |-> Transaction(id, 1, "CREDIT", 75000, PipelineTimes[n])]

\* The rows mv_transactions is drawn from: customer 1 with the ids 1 to 3 at
\* every time; customer 2 with ids of its own (4, 5, 6) and with customer 1's
\* id 1; and two rows the query leaves out.
PipelineTemplates ==
    Mine(1)
    \o << Transaction(4, 2, "CREDIT", 75000, At(0, 12)),
          Transaction(5, 2, "CREDIT", 75000, At(30, 12)),
          Transaction(2, 1, "DEBIT", 75000, At(30, 12)) >>
    \o Mine(2)
    \o << Transaction(6, 2, "CREDIT", 75000, At(60, 12)),
          Transaction(1, 2, "CREDIT", 75000, At(0, 12)),
          Transaction(1, 2, "CREDIT", 75000, At(30, 12)),
          Transaction(3, 2, "CREDIT", 50000, At(60, 12)) >>
    \o Mine(3)

PipelineTables ==
    {[j \in 1..Len(p) |-> PipelineTemplates[p[j]]]
        : p \in Picks(Len(PipelineTemplates), MaxBatch)}

\* lines 20-40: the query and the frame built from its rows (RangeIndex)
CreditTransactions(table) ==
    LET rows == SelectSeq(table, LAMBDA r : r.ob_transaction_type = "CREDIT"
                                             /\ r.amount >= MIN_AMOUNT)
    IN [j \in 1..Len(rows) |->
          [index |-> j, ob_transaction_id |-> rows[j].ob_transaction_id,
           customer_id |-> rows[j].customer_id, merchant_name |-> rows[j].merchant_name,
           amount |-> rows[j].amount, ob_transaction_type |-> rows[j].ob_transaction_type,
           ob_transaction_timestamp |-> rows[j].ob_transaction_timestamp]]

\* line 263: credit_df["customer_id"].unique(), in order of first appearance
UniqueCustomers(frame) ==
    LET first == {j \in 1..Len(frame) :
                     \A l \in 1..(j - 1) : frame[l].customer_id # frame[j].customer_id}
        F[j \in 0..Len(frame)] ==
            IF j = 0 THEN <<>>
            ELSE IF j \in first THEN Append(F[j - 1], frame[j].customer_id) ELSE F[j - 1]
    IN F[Len(frame)]

\* line 268: detect_monthly_salary(credit_df, customer_id), every default
DetectDefault(frame, c) ==
    DetectMonthlySalary(frame, c, MIN_AMOUNT, DAY_INTERVAL_LO, DAY_INTERVAL_HI,
                        AMOUNT_TOLERANCE_PCT, MIN_OCCURRENCES)

\* lines 225-247: one upsert.  On a conflict customer_id is not updated.
Upsert(table, rec) ==
    IF \E t \in table : t.ob_transaction_id = rec.ob_transaction_id
    THEN {IF t.ob_transaction_id = rec.ob_transaction_id
          THEN [rec EXCEPT !.customer_id = t.customer_id] ELSE t : t \in table}
    ELSE table \cup {rec}

\* line 253: execute_batch runs the upsert for every record, in order
RECURSIVE ExecuteBatch(_, _)
ExecuteBatch(table, records) ==
    IF records = <<>> THEN table
    ELSE ExecuteBatch(Upsert(table, Head(records)), Tail(records))

InitPipeline ==
    /\ mv_transactions \in PipelineTables
    /\ credit_df = <<>>
    /\ customer_ids = <<>>
    /\ all_salary_transactions = <<>>
    /\ saved_df = <<>>
    /\ customer_salary = {}
    /\ fetch_calls = 0
    /\ save_calls = 0
    /\ sink_failed = FALSE
    /\ outcome = "running"
    /\ pc = "fetch"
    /\ DetectUnused

\* lines 262-264, the query succeeding
Fetch ==
    /\ pc = "fetch"
    /\ fetch_calls' = fetch_calls + 1
    /\ credit_df' = CreditTransactions(mv_transactions)
    /\ customer_ids' = UniqueCustomers(credit_df')
    /\ all_salary_transactions' = <<>>
    /\ pc' = "loop"
    /\ UNCHANGED <<mv_transactions, saved_df, customer_salary, save_calls, sink_failed,
                   outcome, detect_vars>>

\* lines 42-44 and 263: the query raises, get_credit_transactions prints the
\* error and returns a frame without columns, and credit_df["customer_id"]
\* raises KeyError out of process_customer_salary
FetchFails ==
    /\ pc = "fetch"
    /\ fetch_calls' = fetch_calls + 1
    /\ credit_df' = <<>>
    /\ outcome' = "KeyError"
    /\ pc' = "raised"
    /\ UNCHANGED <<mv_transactions, customer_ids, all_salary_transactions, saved_df,
                   customer_salary, save_calls, sink_failed, detect_vars>>

\* DetectCustomer writing each customer's result to the sink as it goes
DetectCustomer_SavesEach ==
    /\ pc = "loop"
    /\ customer_ids # <<>>
    /\ all_salary_transactions' =
          all_salary_transactions \o DetectDefault(credit_df, Head(customer_ids))
    /\ customer_salary' =
          ExecuteBatch(customer_salary, DetectDefault(credit_df, Head(customer_ids)))
    /\ customer_ids' = Tail(customer_ids)
    /\ UNCHANGED <<mv_transactions, credit_df, saved_df, fetch_calls,
                   save_calls, sink_failed, outcome, pc, detect_vars>>

\* lines 267-275: one iteration of the loop over the customers
DetectCustomer ==
    /\ pc = "loop"
    /\ customer_ids # <<>>
    /\ all_salary_transactions' =
          all_salary_transactions \o DetectDefault(credit_df, Head(customer_ids))
    /\ customer_ids' = Tail(customer_ids)
    /\ UNCHANGED <<mv_transactions, credit_df, saved_df, customer_salary, fetch_calls,
                   save_calls, sink_failed, outcome, pc, detect_vars>>

\* lines 278-279 and 210-211: the aggregate is empty, save returns at once
SaveNothing ==
    /\ pc = "loop"
    /\ customer_ids = <<>>
    /\ all_salary_transactions = <<>>
    /\ save_calls' = save_calls + 1
    /\ saved_df' = all_salary_transactions
    /\ outcome' = "returned"
    /\ pc' = "done"
    /\ UNCHANGED <<mv_transactions, credit_df, customer_ids, all_salary_transactions,
                   customer_salary, fetch_calls, sink_failed, detect_vars>>

\* lines 278-279 and 249-253: the write succeeds
Save ==
    /\ pc = "loop"
    /\ customer_ids = <<>>
    /\ all_salary_transactions # <<>>
    /\ save_calls' = save_calls + 1
    /\ saved_df' = all_salary_transactions
    /\ customer_salary' = ExecuteBatch(customer_salary, all_salary_transactions)
    /\ outcome' = "returned"
    /\ pc' = "done"
    /\ UNCHANGED <<mv_transactions, credit_df, customer_ids, all_salary_transactions,
                   fetch_calls, sink_failed, detect_vars>>

\* lines 278-279 and 249-255: the write raises; the except clause prints
\* the error and save_salary_transactions returns None
SaveFails ==
    /\ pc = "loop"
    /\ customer_ids = <<>>
    /\ all_salary_transactions # <<>>
    /\ save_calls' = save_calls + 1
    /\ saved_df' = all_salary_transactions
    /\ sink_failed' = TRUE
    /\ outcome' = "returned"
    /\ pc' = "done"
    /\ UNCHANGED <<mv_transactions, credit_df, customer_ids, all_salary_transactions,
                   customer_salary, fetch_calls, detect_vars>>

Next ==
    \/ Fetch
    \/ FetchFails
    \/ DetectCustomer
    \/ SaveNothing
    \/ Save
    \/ SaveFails

Init == InitPipeline

Spec == Init /\ [][Next]_vars

----------------------------------------------------------------------------
(* Properties of process_customer_salary.                                  *)

\* C5: a run whose sink write failed does not end like a run whose write
\* succeeded: the failure reaches the caller of process_customer_salary.
C5_SinkFailureReported ==
    (pc = "done" /\ sink_failed) => outcome # "returned"

\* C7: the frame handed to save_salary_transactions never holds two
\* entries with the same transaction id.
C7_AggregateHasNoDuplicateIds ==
    \A j, l \in 1..Len(saved_df) :
        j # l => saved_df[j].ob_transaction_id # saved_df[l].ob_transaction_id

\* The per-customer results, one after the other in the order of the loop
RECURSIVE Aggregate(_, _)
Aggregate(frame, customers) ==
    IF customers = <<>> THEN <<>>
    ELSE DetectDefault(frame, Head(customers)) \o Aggregate(frame, Tail(customers))

\* C8: a run fetches once, before anything else; it calls
\* save_salary_transactions at most once, only after the loop has visited
\* every customer, with the whole aggregate, and a run that returns has
\* called it exactly once; nothing is written to the sink before that call.
C8_OneFetchThenDetectionsThenOneSave ==
    /\ fetch_calls = (IF pc = "fetch" THEN 0 ELSE 1)
    /\ save_calls = (IF pc = "done" THEN 1 ELSE 0)
    /\ save_calls = 0 => (customer_salary = {} /\ saved_df = <<>>)
    /\ save_calls = 1 =>
          /\ customer_ids = <<>>
          /\ saved_df = Aggregate(credit_df, UniqueCustomers(credit_df))
          /\ customer_salary \in {{}, ExecuteBatch({}, saved_df)}

\* Two customers with a streak each, written by the one call.
C8_Witness ==
    /\ pc = "done"
    /\ ~sink_failed
    /\ Len(UniqueCustomers(credit_df)) = 2
    /\ Len(saved_df) = 6
    /\ Cardinality(customer_salary) = 6

\* The rows of one customer (labels kept)
CustomerSlice(frame, c) == SelectSeq(frame, LAMBDA row : row.customer_id = c)

\* C9: the result for a customer is the result on that customer's rows
\* alone, and the set of transactions handed to the sink is the union of
\* these per-customer results, whatever the order of the customers.
C9_CustomersIndependent ==
    pc = "done" =>
       /\ \A c \in Range(UniqueCustomers(credit_df)) :
             DetectDefault(credit_df, c) = DetectDefault(CustomerSlice(credit_df, c), c)
       /\ Range(saved_df) = UNION {Range(DetectDefault(CustomerSlice(credit_df, c), c))
                                        : c \in Range(UniqueCustomers(credit_df))}

\* Two customers whose rows are mixed in the batch, each with a streak.
C9_Witness ==
    /\ pc = "done"
    /\ Len(credit_df) = 6
    /\ credit_df[1].customer_id = 1
    /\ credit_df[2].customer_id = 2
    /\ credit_df[Len(credit_df)].customer_id = 1
    /\ \A c \in {1, 2} : Len(DetectDefault(credit_df, c)) = 3
    /\ Len(saved_df) = 6

====
